---- MODULE Spec2Model ----
(***************************************************************************)
(* Client-side cart / order controller of the grocery store application   *)
(* (static/js/main.js): cart count badge, flash notifications, and the    *)
(* add / update / remove / place-order handlers with their fetch          *)
(* continuations, timers and the page life cycle.                         *)
(*                                                                         *)
(* Strings are sequences of one-character strings, so that trimming,      *)
(* digit stripping and parseInt are computed character by character.      *)
(* Timer delays are counted in units of 1000 ms.                          *)
(***************************************************************************)
EXTENDS Integers, Sequences, FiniteSets, TLC

\* ------------------------------------------------------------------ bounds
MaxOps   == 1      \* user-initiated handler invocations on one page

\* ------------------------------------------------------- program constants
NotificationDelay == 3     \* setTimeout(..., 3000) in showNotification
FlashHideDelay    == 5     \* setTimeout(..., 5000) in the DOMContentLoaded handler
RedirectDelay     == 2     \* setTimeout(..., 2000) in placeOrder
PhoneDigits       == 10    \* /^\d{10}$/ in validatePhone

\* --------------------------------------------------------------- JS values
Null   == [kind |-> "null", v |-> 0]
NaN    == [kind |-> "nan",  v |-> 0]
Num(n) == [kind |-> "int",  v |-> n]

\* ToBoolean on null / NaN / integer: the left operand test of `a || b`
Truthy(x) == x.kind = "int" /\ x.v /= 0

\* `a || b`
JsOr(a, b) == IF Truthy(a) THEN a ELSE b

\* `x < n` for an integer literal n: null converts to 0, NaN compares false
JsLess(x, n) ==
    CASE x.kind = "int"  -> x.v < n
      [] x.kind = "null" -> 0 < n
      [] x.kind = "nan"  -> FALSE

\* JSON.stringify of a number or null: NaN is written as null
JsonValue(x) == IF x.kind = "nan" THEN Null ELSE x

\* ----------------------------------------------------------------- strings
Digits     == {"0", "1", "2", "3", "4", "5", "6", "7", "8", "9"}
Whitespace == {" "}

DigitVal(c) ==
    CASE c = "0" -> 0 [] c = "1" -> 1 [] c = "2" -> 2 [] c = "3" -> 3
      [] c = "4" -> 4 [] c = "5" -> 5 [] c = "6" -> 6 [] c = "7" -> 7
      [] c = "8" -> 8 [] c = "9" -> 9

RECURSIVE TrimStart(_)
TrimStart(s) ==
    IF s /= <<>> /\ Head(s) \in Whitespace THEN TrimStart(Tail(s)) ELSE s

RECURSIVE TrimEnd(_)
TrimEnd(s) ==
    IF s /= <<>> /\ s[Len(s)] \in Whitespace
    THEN TrimEnd(SubSeq(s, 1, Len(s) - 1)) ELSE s

\* String.prototype.trim
Trim(s) == TrimEnd(TrimStart(s))

\* phone.replace(/\D/g, '')
RECURSIVE StripNonDigits(_)
StripNonDigits(s) ==
    IF s = <<>> THEN <<>>
    ELSE IF Head(s) \in Digits THEN <<Head(s)>> \o StripNonDigits(Tail(s))
    ELSE StripNonDigits(Tail(s))

\* /^\d{10}$/.test(s)
MatchesTenDigits(s) ==
    Len(s) = PhoneDigits /\ \A i \in 1..Len(s) : s[i] \in Digits

validatePhone_NoStrip(phone) == MatchesTenDigits(phone)

validatePhone(phone) == MatchesTenDigits(StripNonDigits(phone))

\* the longest prefix of decimal digits of s
\* [^\s@]+ on s[a..b]
NotSpaceOrAt(s, a, b) ==
    a <= b /\ \A k \in a..b : s[k] \notin Whitespace \cup {"@"}

validateEmail_NoDot(email) ==
    \E i \in 1..Len(email) :
        /\ email[i] = "@"
        /\ NotSpaceOrAt(email, 1, i - 1)
        /\ NotSpaceOrAt(email, i + 1, Len(email))

\* /^[^\s@]+@[^\s@]+\.[^\s@]+$/.test(email): some '@' at i and some '.'
\* at j split the string into three non-empty runs without whitespace or '@'
validateEmail(email) ==
    \E i, j \in 1..Len(email) :
        /\ email[i] = "@" /\ email[j] = "."
        /\ NotSpaceOrAt(email, 1, i - 1)
        /\ NotSpaceOrAt(email, i + 1, j - 1)
        /\ NotSpaceOrAt(email, j + 1, Len(email))

RECURSIVE DigitPrefix(_)
DigitPrefix(s) ==
    IF s /= <<>> /\ Head(s) \in Digits
    THEN <<Head(s)>> \o DigitPrefix(Tail(s)) ELSE <<>>

RECURSIVE DecimalValue(_, _)
DecimalValue(s, acc) ==
    IF s = <<>> THEN acc ELSE DecimalValue(Tail(s), 10 * acc + DigitVal(Head(s)))

\* parseInt(s): leading whitespace skipped, optional sign, then digits;
\* NaN when no digit follows
parseInt(s) ==
    LET t    == TrimStart(s)
        neg  == t /= <<>> /\ Head(t) = "-"
        u    == IF t /= <<>> /\ Head(t) \in {"-", "+"} THEN Tail(t) ELSE t
        d    == DigitPrefix(u)
        val  == DecimalValue(d, 0)
    IN  IF d = <<>> THEN NaN ELSE Num(IF neg THEN 0 - val ELSE val)

\* ------------------------------------------------------------ input domains
Products   == {"P1", "P2"}
\* the quantity argument of addToCart: omitted (null) or an explicit number
Quantities == {Null, Num(-1), Num(0), Num(2)}
\* the newQuantity argument of updateQuantity
NewQuantities == {Num(-1), Num(0), Num(2), NaN}
\* texts the user leaves in a quantity input before adding to the cart
QtyTexts   == { <<>>, <<"a">>, <<"0">>, <<"-", "2">>, <<"3">>, <<"1">> }
\* contents of the delivery address field
Addresses  == { <<>>, <<" ">>, <<" ", "a", " ">> }
\* contents of the phone number field
Phones     == { <<>>,
                <<"(","5","5","5",")"," ","1","2","3","-","4","5","6","7">>,
                <<" ","5","5","5","1","2","3","4","5","6","7"," ">>,
                <<"5","5","5","-","1","2","3","-","4","5","6">>,
                <<"5","5","5","1","2","3","4","5","6","7","8">> }
\* the optional message of a /place_order answer ("" stands for an empty string)
ServerMessages == {"", "Cart is empty"}

\* ---------------------------------------------------------------- messages
NoBody == [keys |-> {}, product_id |-> "", quantity |-> Null,
           address |-> <<>>, phone |-> <<>>]
NoData == [success |-> FALSE, hasMessage |-> FALSE, message |-> "",
           count |-> Null]

\* a fetch() in flight: the request, the closure of its continuation
\* (pid, qtyInput) and, once the server has answered, the parsed body
Request(url, method, body, pid, qtyRef) ==
    [url |-> url, method |-> method, body |-> body, stage |-> "request",
     data |-> NoData, pid |-> pid, qtyInput |-> qtyRef]

RemoveAt(s, i) == SubSeq(s, 1, i - 1) \o SubSeq(s, i + 1, Len(s))

\* --------------------------------------------------------------- the state
VARIABLES
    page,               \* "loading", "live", "reloaded", "navigated"
    badgePresent,       \* whether #cartCount exists
    badgeText,          \* textContent of #cartCount
    container,          \* .flash-messages: "absent", "visible", "hidden"
    containersCreated,  \* calls of createFlashContainer
    notes,              \* notification elements in the container, with timers
    flashTimer,         \* remaining time of the flash auto-hide timer, -1 if none
    navTimers,          \* remaining times of the pending redirect timers
    qtyInput,           \* per product: the #qty-<id> input and its value
    lineElems,          \* per product: elements carrying data-product-id
    net,                \* fetches in flight
    serverCount,        \* cart count held by the server
    ops,                \* user-initiated invocations so far
    last                \* the handler that ran last, its inputs and effects

vars == <<page, badgePresent, badgeText, container, containersCreated, notes,
          flashTimer, navTimers, qtyInput, lineElems, net, serverCount, ops,
          last>>

NoEvent ==
    [op |-> "none", pid |-> "", quantity |-> Null, confirmed |-> FALSE,
     address |-> <<>>, phone |-> <<>>, url |-> "", body |-> NoBody,
     outcome |-> "",
     data |-> NoData, sent |-> <<>>, shown |-> <<>>, logged |-> 0, asked |-> 0]

\* The part of the state a handler works on, threaded through its
\* statements; sent / shown / logged / asked collect what this run did.
Cur ==
    [page |-> page, badgeText |-> badgeText, container |-> container,
     containersCreated |-> containersCreated, notes |-> notes,
     navTimers |-> navTimers, qtyInput |-> qtyInput, lineElems |-> lineElems,
     net |-> net, sent |-> <<>>, shown |-> <<>>, logged |-> 0, asked |-> 0]

Commit(S, ev) ==
    /\ page' = S.page
    /\ badgeText' = S.badgeText
    /\ container' = S.container
    /\ containersCreated' = S.containersCreated
    /\ notes' = S.notes
    /\ navTimers' = S.navTimers
    /\ qtyInput' = S.qtyInput
    /\ lineElems' = S.lineElems
    /\ net' = S.net
    /\ last' = [ev EXCEPT !.sent = S.sent, !.shown = S.shown,
                          !.logged = S.logged, !.asked = S.asked]

\* ------------------------------------------------- notifications and badge
\* fetch(...): the request leaves, its continuation waits for the answer
Fetch(S, req) ==
    [S EXCEPT !.net = Append(@, req), !.sent = Append(@, req)]

createFlashContainer(S) ==
    [S EXCEPT !.container = "visible", !.containersCreated = @ + 1]

showNotification_NoTimer(S, message, type) ==
    LET S1 == IF S.container /= "absent" THEN S ELSE createFlashContainer(S)
    IN  [S1 EXCEPT
           !.notes = Append(@, [message |-> message, type |-> type, ttl |-> -1]),
           !.shown = Append(@, [message |-> message, type |-> type])]

showNotification(S, message, type) ==
    LET S1 == IF S.container /= "absent" THEN S ELSE createFlashContainer(S)
    IN  [S1 EXCEPT
           !.notes = Append(@, [message |-> message, type |-> type,
                                ttl |-> NotificationDelay]),
           !.shown = Append(@, [message |-> message, type |-> type])]

updateCartCount(S) ==
    Fetch(S, Request("/api/cart/count", "GET", NoBody, "", FALSE))

\* .then(data => ...) of updateCartCount; a missing #cartCount makes the
\* assignment throw, which the .catch logs
updateCartCountCatch_Notify(S) ==
    showNotification([S EXCEPT !.logged = @ + 1], "Error updating cart count", "error")

updateCartCountCatch(S) == [S EXCEPT !.logged = @ + 1]

updateCartCountThen(S, m, hasBadge) ==
    IF ~hasBadge THEN updateCartCountCatch(S)
    ELSE [S EXCEPT !.badgeText = JsOr(m.data.count, Num(0)).v]

\* -------------------------------------------------------------- addToCart
addToCart(S, productId, quantity) ==
    LET qi  == S.qtyInput[productId]
        qty == JsOr(quantity, IF qi.present THEN parseInt(qi.value) ELSE Num(1))
    IN  IF JsLess(qty, 1)
        THEN showNotification(S, "Please select a valid quantity", "error")
        ELSE Fetch(S, Request("/add_to_cart", "POST",
                       [NoBody EXCEPT !.keys = {"product_id", "quantity"},
                                      !.product_id = productId,
                                      !.quantity = JsonValue(qty)],
                       productId, qi.present))

addToCartCatch_Retry(S, m) ==
    Fetch(showNotification([S EXCEPT !.logged = @ + 1],
                           "Error adding product to cart", "error"),
          Request(m.url, m.method, m.body, m.pid, m.qtyInput))

addToCartCatch(S, m) ==
    showNotification([S EXCEPT !.logged = @ + 1],
                     "Error adding product to cart", "error")

addToCartThen_NoReset(S, m) ==
    IF m.data.success
    THEN updateCartCount(showNotification(S, "Product added to cart!", "success"))
    ELSE showNotification(S, "Error adding product to cart", "error")

addToCartThen(S, m) ==
    IF m.data.success
    THEN LET S1 == showNotification(S, "Product added to cart!", "success")
             S2 == updateCartCount(S1)
         IN  IF m.qtyInput
             THEN [S2 EXCEPT !.qtyInput[m.pid].value = <<"1">>]
             ELSE S2
    ELSE showNotification(S, "Error adding product to cart", "error")

\* --------------------------------------------------------- removeFromCart
removeFromCart_NoPrompt(S, productId, answer) ==
    Fetch(S, Request("/remove_from_cart", "POST",
                     [NoBody EXCEPT !.keys = {"product_id"},
                                    !.product_id = productId],
                     productId, FALSE))

removeFromCart(S, productId, answer) ==
    LET S1 == [S EXCEPT !.asked = @ + 1]
    IN  IF ~answer THEN S1
        ELSE Fetch(S1, Request("/remove_from_cart", "POST",
                        [NoBody EXCEPT !.keys = {"product_id"},
                                       !.product_id = productId],
                        productId, FALSE))

removeFromCartCatch(S, m) ==
    showNotification([S EXCEPT !.logged = @ + 1], "Error removing item", "error")

\* querySelector(...) returns null when no element carries the product
\* identifier; .remove() on it throws and the .catch runs
removeFromCartThen_NotifyFirst(S, m) ==
    IF m.data.success
    THEN LET S1 == showNotification(S, "Item removed from cart", "success")
         IN  IF S1.lineElems[m.pid] = 0
             THEN removeFromCartCatch(S1, m)
             ELSE [updateCartCount([S1 EXCEPT !.lineElems[m.pid] = @ - 1])
                     EXCEPT !.page = "reloaded"]
    ELSE showNotification(S, "Error removing item", "error")

removeFromCartThen(S, m) ==
    IF m.data.success
    THEN IF S.lineElems[m.pid] = 0
         THEN removeFromCartCatch(S, m)
         ELSE LET S1 == [S EXCEPT !.lineElems[m.pid] = @ - 1]
                  S2 == showNotification(S1, "Item removed from cart", "success")
                  S3 == updateCartCount(S2)
              IN  [S3 EXCEPT !.page = "reloaded"]
    ELSE showNotification(S, "Error removing item", "error")

\* --------------------------------------------------------- updateQuantity
updateQuantity_ZeroUpdates(S, productId, newQuantity, answer) ==
    IF JsLess(newQuantity, 0)
    THEN removeFromCart(S, productId, answer)
    ELSE Fetch(S, Request("/update_cart", "POST",
                   [NoBody EXCEPT !.keys = {"product_id", "quantity"},
                                  !.product_id = productId,
                                  !.quantity = JsonValue(newQuantity)],
                   productId, FALSE))

updateQuantity(S, productId, newQuantity, answer) ==
    IF JsLess(newQuantity, 1)
    THEN removeFromCart(S, productId, answer)
    ELSE Fetch(S, Request("/update_cart", "POST",
                   [NoBody EXCEPT !.keys = {"product_id", "quantity"},
                                  !.product_id = productId,
                                  !.quantity = JsonValue(newQuantity)],
                   productId, FALSE))

updateQuantityCatch(S, m) ==
    showNotification([S EXCEPT !.logged = @ + 1], "Error updating cart", "error")

updateQuantityThen_AlwaysReload(S, m) == [S EXCEPT !.page = "reloaded"]

updateQuantityThen(S, m) ==
    IF m.data.success
    THEN [S EXCEPT !.page = "reloaded"]
    ELSE showNotification(S, "Error updating cart", "error")

\* ------------------------------------------------------------- placeOrder
placeOrder_PhoneFirst(S, addressField, phoneField) ==
    LET address == Trim(addressField)
        phone   == Trim(phoneField)
    IN  IF ~validatePhone(phone)
        THEN showNotification(S, "Please enter a valid phone number", "error")
        ELSE IF address = <<>>
        THEN showNotification(S, "Please enter delivery address", "error")
        ELSE Fetch(S, Request("/place_order", "POST",
                       [NoBody EXCEPT !.keys = {"address", "phone"},
                                      !.address = address,
                                      !.phone = phone],
                       "", FALSE))

placeOrder(S, addressField, phoneField) ==
    LET address == Trim(addressField)
        phone   == Trim(phoneField)
    IN  IF address = <<>>
        THEN showNotification(S, "Please enter delivery address", "error")
        ELSE IF ~validatePhone(phone)
        THEN showNotification(S, "Please enter a valid phone number", "error")
        ELSE Fetch(S, Request("/place_order", "POST",
                       [NoBody EXCEPT !.keys = {"address", "phone"},
                                      !.address = address,
                                      !.phone = phone],
                       "", FALSE))

placeOrderCatch_Silent(S, m) == [S EXCEPT !.logged = @ + 1]

placeOrderCatch(S, m) ==
    showNotification([S EXCEPT !.logged = @ + 1], "Error placing order", "error")

placeOrderThen_NoDelay(S, m) ==
    IF m.data.success
    THEN LET S1 == showNotification(S, "Order placed successfully!", "success")
         IN  [S1 EXCEPT !.navTimers = Append(@, 0)]
    ELSE showNotification(S,
             IF m.data.hasMessage /\ m.data.message /= ""
             THEN m.data.message ELSE "Error placing order",
             "error")

placeOrderThen(S, m) ==
    IF m.data.success
    THEN LET S1 == showNotification(S, "Order placed successfully!", "success")
         IN  [S1 EXCEPT !.navTimers = Append(@, RedirectDelay)]
    ELSE showNotification(S,
             IF m.data.hasMessage /\ m.data.message /= ""
             THEN m.data.message ELSE "Error placing order",
             "error")

\* ------------------------------------------------------------------- Init
\* the cart line elements of the page: none, one product's, or both
CartLines ==
    { [p \in Products |-> 0],
      [p \in Products |-> IF p = "P1" THEN 1 ELSE 0],
      [p \in Products |-> 1] }

\* The document as the server rendered it: the badge, a flash region and
\* the cart line / quantity elements may or may not be part of the page.
Init ==
    /\ page = "loading"
    /\ badgePresent \in BOOLEAN
    /\ badgeText = 0
    /\ container \in {"absent", "visible"}
    /\ containersCreated = 0
    /\ notes = <<>>
    /\ flashTimer = -1
    /\ navTimers = <<>>
    /\ \E hasInputs \in BOOLEAN :
         qtyInput = [p \in Products |->
                       [present |-> hasInputs,
                        value |-> IF hasInputs THEN <<"1">> ELSE <<>>]]
    /\ lineElems \in CartLines
    /\ net = <<>>
    /\ serverCount = 0
    /\ ops = 0
    /\ last = NoEvent

\* ------------------------------------------------------- page life cycle
\* document.addEventListener('DOMContentLoaded', ...)
DOMContentLoaded ==
    /\ page = "loading"
    /\ flashTimer' = FlashHideDelay
    /\ Commit([updateCartCount(Cur) EXCEPT !.page = "live"],
              [NoEvent EXCEPT !.op = "DOMContentLoaded"])
    /\ UNCHANGED <<badgePresent, serverCount, ops>>

\* ----------------------------------------------------------- user actions
\* The user leaves `typed` in the product's quantity input (when the page
\* has one) and the page calls addToCart(productId, quantity).
AddToCart(productId, quantity, typed) ==
    /\ page = "live"
    /\ typed = IF qtyInput[productId].present THEN typed ELSE <<>>
    /\ ops' = ops + 1
    /\ Commit(addToCart([Cur EXCEPT !.qtyInput[productId].value = typed],
                        productId, quantity),
              [NoEvent EXCEPT !.op = "addToCart", !.pid = productId,
                              !.quantity = quantity])
    /\ UNCHANGED <<badgePresent, flashTimer, serverCount>>

UpdateQuantity(productId, newQuantity, answer) ==
    /\ page = "live"
    /\ ops' = ops + 1
    /\ Commit(updateQuantity(Cur, productId, newQuantity, answer),
              [NoEvent EXCEPT !.op = "updateQuantity", !.pid = productId,
                              !.quantity = newQuantity, !.confirmed = answer])
    /\ UNCHANGED <<badgePresent, flashTimer, serverCount>>

RemoveFromCart(productId, answer) ==
    /\ page = "live"
    /\ ops' = ops + 1
    /\ Commit(removeFromCart(Cur, productId, answer),
              [NoEvent EXCEPT !.op = "removeFromCart", !.pid = productId,
                              !.confirmed = answer])
    /\ UNCHANGED <<badgePresent, flashTimer, serverCount>>

PlaceOrder(addressField, phoneField) ==
    /\ page = "live"
    /\ ops' = ops + 1
    /\ Commit(placeOrder(Cur, addressField, phoneField),
              [NoEvent EXCEPT !.op = "placeOrder", !.address = addressField,
                              !.phone = phoneField])
    /\ UNCHANGED <<badgePresent, flashTimer, serverCount>>

\* ---------------------------------------------------------------- network
\* The server answers request i.
ServerAnswer(m, sc) ==
    CASE m.url = "/api/cart/count" ->
           {[NoData EXCEPT !.count = Num(sc)]}
      [] m.url = "/place_order" ->
           {[NoData EXCEPT !.success = TRUE]}
           \cup {[NoData EXCEPT !.hasMessage = h, !.message = t]
                   : h \in BOOLEAN, t \in ServerMessages}
      [] OTHER ->
           {[NoData EXCEPT !.success = b] : b \in BOOLEAN}

ServerCountAfter(m, d, sc) ==
    CASE m.url = "/add_to_cart" /\ d.success      -> sc + 1
      [] m.url = "/remove_from_cart" /\ d.success -> IF sc > 0 THEN sc - 1 ELSE 0
      [] m.url = "/place_order" /\ d.success      -> 0
      [] OTHER                                    -> sc

\* The server reads the cart count for GET request i; the answer is on its
\* way back while the cart may change again.
ServerHandle(i) ==
    /\ i \in 1..Len(net)
    /\ net[i].stage = "request"
    /\ net[i].url = "/api/cart/count"
    /\ \E d \in ServerAnswer(net[i], serverCount) :
         net' = [net EXCEPT ![i].stage = "response", ![i].data = d]
    /\ last' = [NoEvent EXCEPT !.op = "server"]
    /\ UNCHANGED serverCount
    /\ UNCHANGED <<page, badgePresent, badgeText, container, containersCreated,
                   notes, flashTimer, navTimers, qtyInput, lineElems, ops>>

\* .then(response => response.json()).then(data => ...)
Then(S, m) ==
    CASE m.url = "/api/cart/count"   -> updateCartCountThen(S, m, badgePresent)
      [] m.url = "/add_to_cart"      -> addToCartThen(S, m)
      [] m.url = "/update_cart"      -> updateQuantityThen(S, m)
      [] m.url = "/remove_from_cart" -> removeFromCartThen(S, m)
      [] m.url = "/place_order"      -> placeOrderThen(S, m)

\* .catch(error => ...)
Catch(S, m) ==
    CASE m.url = "/api/cart/count"   -> updateCartCountCatch(S)
      [] m.url = "/add_to_cart"      -> addToCartCatch(S, m)
      [] m.url = "/update_cart"      -> updateQuantityCatch(S, m)
      [] m.url = "/remove_from_cart" -> removeFromCartCatch(S, m)
      [] m.url = "/place_order"      -> placeOrderCatch(S, m)

Settle(i, m, outcome) ==
    Commit((IF outcome = "resolved" THEN Then([Cur EXCEPT !.net = RemoveAt(net, i)], m)
                                    ELSE Catch([Cur EXCEPT !.net = RemoveAt(net, i)], m)),
           [NoEvent EXCEPT !.op = "settle", !.url = m.url, !.pid = m.pid,
                           !.body = m.body,
                           !.outcome = outcome, !.data = m.data])

\* The answer to fetch i arrives and parses as JSON.  For a POST the
\* server's handling of the request is part of this step; the answer to
\* the GET carries the count read earlier, or no count field at all.
Deliver(i) ==
    /\ page = "live"
    /\ i \in 1..Len(net)
    /\ \/ /\ net[i].stage = "response"
          /\ \E d \in {net[i].data, NoData} :
               Settle(i, [net[i] EXCEPT !.data = d], "resolved")
          /\ UNCHANGED serverCount
       \/ /\ net[i].stage = "request"
          /\ net[i].url /= "/api/cart/count"
          /\ \E d \in ServerAnswer(net[i], serverCount) :
               /\ Settle(i, [net[i] EXCEPT !.stage = "response", !.data = d],
                         "resolved")
               /\ serverCount' = ServerCountAfter(net[i], d, serverCount)
    /\ UNCHANGED <<badgePresent, flashTimer, ops>>

\* Fetch i fails in transport, or its answer is not JSON.
Fail(i) ==
    /\ page = "live"
    /\ i \in 1..Len(net)
    /\ Settle(i, [net[i] EXCEPT !.data = NoData], "rejected")
    /\ UNCHANGED <<badgePresent, flashTimer, serverCount, ops>>

\* ----------------------------------------------------------------- timers
\* A timer records the delay it was set with.  The clock itself is not
\* part of this state: a pending timer may fire at any later step, which
\* covers every placement of the other events in time.

\* the page-load timer: flashMessages.style.display = 'none'
FlashHide ==
    /\ page = "live"
    /\ flashTimer >= 0
    /\ flashTimer' = -1
    /\ container' = IF container = "absent" THEN container ELSE "hidden"
    /\ last' = [NoEvent EXCEPT !.op = "flashHide"]
    /\ UNCHANGED <<page, badgePresent, badgeText, containersCreated, notes,
                   navTimers, qtyInput, lineElems, net, serverCount, ops>>

\* notification.remove()
NotificationTimeout(i) ==
    /\ page = "live"
    /\ i \in 1..Len(notes)
    /\ notes' = RemoveAt(notes, i)
    /\ last' = [NoEvent EXCEPT !.op = "notificationTimeout"]
    /\ UNCHANGED <<page, badgePresent, badgeText, container, containersCreated,
                   flashTimer, navTimers, qtyInput, lineElems, net,
                   serverCount, ops>>

\* window.location.href = `/orders`
Redirect(i) ==
    /\ page = "live"
    /\ i \in 1..Len(navTimers)
    /\ page' = "navigated"
    /\ navTimers' = RemoveAt(navTimers, i)
    /\ last' = [NoEvent EXCEPT !.op = "redirect"]
    /\ UNCHANGED <<badgePresent, badgeText, container, containersCreated,
                   notes, flashTimer, qtyInput, lineElems, net, serverCount,
                   ops>>

\* -------------------------------------------------------------------- Next
Next ==
    \/ DOMContentLoaded
    \/ ops < MaxOps /\ \E p \in Products, q \in Quantities, t \in QtyTexts :
          AddToCart(p, q, t)
    \/ ops < MaxOps /\ \E p \in Products, q \in NewQuantities, a \in BOOLEAN :
          UpdateQuantity(p, q, a)
    \/ ops < MaxOps /\ \E p \in Products, a \in BOOLEAN : RemoveFromCart(p, a)
    \/ ops < MaxOps /\ \E a \in Addresses, ph \in Phones : PlaceOrder(a, ph)
    \/ \E i \in 1..Len(net) : ServerHandle(i)
    \/ \E i \in 1..Len(net) : Deliver(i)
    \/ \E i \in 1..Len(net) : Fail(i)
    \/ FlashHide
    \/ \E i \in 1..Len(notes) : NotificationTimeout(i)
    \/ \E i \in 1..Len(navTimers) : Redirect(i)

Spec == Init /\ [][Next]_vars

\* ------------------------------------------------------- timers on a clock
\* The same page with the timers on a clock of whole seconds: a timer set
\* with delay d fires after d ticks, time stands still while a callback is
\* due, and callbacks due in the same second run in either order.
MaxTimedOps == 1

TimerDue ==
    \/ flashTimer = 0
    \/ \E i \in 1..Len(notes) : notes[i].ttl = 0
    \/ \E i \in 1..Len(navTimers) : navTimers[i] = 0

TimerPending ==
    \/ flashTimer > 0
    \/ \E i \in 1..Len(notes) : notes[i].ttl > 0
    \/ \E i \in 1..Len(navTimers) : navTimers[i] > 0

\* one second passes
Tick ==
    /\ page = "live"
    /\ TimerPending /\ ~TimerDue
    /\ flashTimer' = IF flashTimer > 0 THEN flashTimer - 1 ELSE flashTimer
    /\ notes' = [i \in 1..Len(notes) |->
                   [notes[i] EXCEPT !.ttl = IF @ > 0 THEN @ - 1 ELSE @]]
    /\ navTimers' = [i \in 1..Len(navTimers) |->
                       IF navTimers[i] > 0 THEN navTimers[i] - 1 ELSE navTimers[i]]
    /\ last' = [NoEvent EXCEPT !.op = "tick"]
    /\ UNCHANGED <<page, badgePresent, badgeText, container, containersCreated,
                   qtyInput, lineElems, net, serverCount, ops>>

FlashHideDue == flashTimer = 0 /\ FlashHide

NotificationDue ==
    \E i \in 1..Len(notes) : notes[i].ttl = 0 /\ NotificationTimeout(i)

RedirectDue ==
    \E i \in 1..Len(navTimers) : navTimers[i] = 0 /\ Redirect(i)

\* documents without quantity inputs or cart lines; orders with a blank or
\* a valid address and phone, adds with an explicit quantity
TimedInit ==
    /\ Init
    /\ \A p \in Products : ~qtyInput[p].present /\ lineElems[p] = 0

TimedAddresses == { <<>>, <<" ", "a", " ">> }

TimedPhones == { <<"5","5","5","1","2","3","4","5","6","7">> }

TimedQuantities == {Num(0), Num(2)}

TimedNext ==
    \/ DOMContentLoaded
    \/ ops < MaxTimedOps /\ \E a \in TimedAddresses, ph \in TimedPhones :
          PlaceOrder(a, ph)
    \/ ops < MaxTimedOps /\ \E q \in TimedQuantities : AddToCart("P1", q, <<>>)
    \/ \E i \in 1..Len(net) : ServerHandle(i)
    \/ \E i \in 1..Len(net) : Deliver(i)
    \/ \E i \in 1..Len(net) : Fail(i)
    \/ Tick
    \/ FlashHideDue
    \/ NotificationDue
    \/ RedirectDue

\* The browser runs a callback that is due, and time goes on.
SpecTimed ==
    /\ TimedInit /\ [][TimedNext]_vars
    /\ WF_vars(Tick)
    /\ WF_vars(FlashHideDue) /\ WF_vars(NotificationDue) /\ WF_vars(RedirectDue)

\* ------------------------------------------------- invocations that overlap
\* Several handler invocations on one page, each started while answers to
\* the earlier ones may still be on their way: a cart page with both line
\* elements, badge and flash region, no quantity inputs.
MaxPendingOps == 2

PendingInit ==
    /\ Init
    /\ badgePresent /\ container = "visible"
    /\ \A p \in Products : ~qtyInput[p].present /\ lineElems[p] = 1

PendingNext ==
    \/ DOMContentLoaded
    \/ ops < MaxPendingOps /\ \E q \in TimedQuantities : AddToCart("P1", q, <<>>)
    \/ ops < MaxPendingOps /\ \E q \in TimedQuantities :
          UpdateQuantity("P1", q, TRUE)
    \/ ops < MaxPendingOps /\ \E a \in BOOLEAN : RemoveFromCart("P1", a)
    \/ ops < MaxPendingOps /\ \E a \in TimedAddresses, ph \in TimedPhones :
          PlaceOrder(a, ph)
    \/ \E i \in 1..Len(net) : ServerHandle(i)
    \/ \E i \in 1..Len(net) : Deliver(i)
    \/ \E i \in 1..Len(net) : Fail(i)
    \/ FlashHide
    \/ \E i \in 1..Len(notes) : NotificationTimeout(i)
    \/ \E i \in 1..Len(navTimers) : Redirect(i)

SpecPending == PendingInit /\ [][PendingNext]_vars

\* ---------------------------------------------------- adds that all succeed
\* A page with a badge on which every add is accepted by the server and
\* every answer arrives well-formed, in any order.
MaxAdds == 2

AddsInit ==
    /\ Init
    /\ badgePresent
    /\ \A p \in Products : ~qtyInput[p].present /\ lineElems[p] = 0

AddsDeliver(i) ==
    /\ Deliver(i)
    /\ last'.url = "/add_to_cart" => last'.data.success
    /\ last'.url = "/api/cart/count" => last'.data.count.kind = "int"

AddsNext ==
    \/ DOMContentLoaded
    \/ ops < MaxAdds /\ \E p \in Products : AddToCart(p, Num(2), <<>>)
    \/ \E i \in 1..Len(net) : ServerHandle(i)
    \/ \E i \in 1..Len(net) : AddsDeliver(i)

SpecAdds == AddsInit /\ [][AddsNext]_vars

\* -------------------------------------------------------------- validators
\* validatePhone and validateEmail applied to every string of a bounded
\* alphabet; the page plays no part, `last` holds the argument and then
\* the value returned.
MaxPhoneLen == 11

MaxEmailLen == 5

PhoneAlphabet == {"0", "5", "-"}

EmailAlphabet == {"a", "b", "c", "@", ".", " "}

Strings(alphabet, n) == UNION {[1..k -> alphabet] : k \in 0..n}

ValidatorsInit ==
    /\ page = "loading"
    /\ badgePresent = TRUE
    /\ badgeText = 0
    /\ container = "absent"
    /\ containersCreated = 0
    /\ notes = <<>>
    /\ flashTimer = -1
    /\ navTimers = <<>>
    /\ qtyInput = [p \in Products |-> [present |-> FALSE, value |-> <<>>]]
    /\ lineElems = [p \in Products |-> 0]
    /\ net = <<>>
    /\ serverCount = 0
    /\ ops = 0
    /\ \/ \E s \in Strings(PhoneAlphabet, MaxPhoneLen) :
             last = [op |-> "phone", input |-> s, result |-> FALSE]
       \/ \E s \in Strings(EmailAlphabet, MaxEmailLen) :
             last = [op |-> "email", input |-> s, result |-> FALSE]

ValidatePhone ==
    /\ last.op = "phone"
    /\ last' = [last EXCEPT !.op = "validatePhone",
                            !.result = validatePhone(last.input)]
    /\ UNCHANGED <<page, badgePresent, badgeText, container, containersCreated,
                   notes, flashTimer, navTimers, qtyInput, lineElems, net,
                   serverCount, ops>>

ValidateEmail ==
    /\ last.op = "email"
    /\ last' = [last EXCEPT !.op = "validateEmail",
                            !.result = validateEmail(last.input)]
    /\ UNCHANGED <<page, badgePresent, badgeText, container, containersCreated,
                   notes, flashTimer, navTimers, qtyInput, lineElems, net,
                   serverCount, ops>>

ValidatorsNext == ValidatePhone \/ ValidateEmail

SpecValidators == ValidatorsInit /\ [][ValidatorsNext]_vars

\* ================================================================== claims
\* Vocabulary of the claims, stated independently of the handlers.
Note(message, type) == [message |-> message, type |-> type]

IsErrorNote(n) == n.type = "error"

SentTo(url) == {i \in 1..Len(last.sent) : last.sent[i].url = url}

\* the string is empty or whitespace only
Blank(s) == \A i \in 1..Len(s) : s[i] \in Whitespace

\* the string holds exactly ten digits among its characters
TenDigitsInside(s) == Cardinality({i \in 1..Len(s) : s[i] \in Digits}) = 10

\* the generic error text of each mutation endpoint
GenericError(url) ==
    CASE url = "/add_to_cart"      -> "Error adding product to cart"
      [] url = "/update_cart"      -> "Error updating cart"
      [] url = "/remove_from_cart" -> "Error removing item"
      [] url = "/place_order"      -> "Error placing order"
      [] OTHER                     -> ""

MutationUrls == {"/add_to_cart", "/update_cart", "/remove_from_cart", "/place_order"}

\* ---------------------------------------------------------------------- C1
\* C1: addToCart(productId, q) with an explicit quantity q <= 0 (q = 0
\* included) sends no request and shows an error notification, whatever the
\* quantity input holds.
C1_NonPositiveRejected ==
    (last.op = "addToCart" /\ last.quantity.kind = "int" /\ last.quantity.v <= 0)
    => /\ last.sent = <<>>
       /\ \E i \in 1..Len(last.shown) : IsErrorNote(last.shown[i])

\* ---------------------------------------------------------------------- C2
\* C2: every request addToCart sends carries the given product_id and an
\* integer quantity >= 1; without an explicit override that quantity is the
\* value parsed from the quantity input, else 1, and an input that parses to
\* not-a-number (empty or non-numeric text) is rejected locally with an
\* error notification and no request.  (Stated for the invocations without
\* an override; the override of 0 is C1's.)
C2_InputQuantity ==
    IF qtyInput[last.pid].present THEN parseInt(qtyInput[last.pid].value)
    ELSE Num(1)

C2_RequestQuantityValid ==
    (last.op = "addToCart" /\ last.quantity = Null)
    => /\ \A i \in 1..Len(last.sent) :
            /\ last.sent[i].url = "/add_to_cart"
            /\ last.sent[i].body.product_id = last.pid
            /\ last.sent[i].body.quantity.kind = "int"
            /\ last.sent[i].body.quantity.v >= 1
            /\ last.sent[i].body.quantity = C2_InputQuantity
       /\ C2_InputQuantity.kind = "nan"
            => /\ last.sent = <<>>
               /\ \E i \in 1..Len(last.shown) : IsErrorNote(last.shown[i])

\* ---------------------------------------------------------------------- C3
\* C3: placeOrder checks the address, then the phone: a blank address gives
\* exactly the address error and no request, even when the phone is invalid
\* too; a non-blank address with an invalid phone gives exactly the phone
\* error and no request; a request to /place_order is sent only when both
\* checks pass.
C3_AddressThenPhone ==
    last.op = "placeOrder"
    => /\ Blank(last.address)
            => /\ last.shown = <<Note("Please enter delivery address", "error")>>
               /\ last.sent = <<>>
       /\ (~Blank(last.address) /\ ~TenDigitsInside(last.phone))
            => /\ last.shown = <<Note("Please enter a valid phone number", "error")>>
               /\ last.sent = <<>>
       /\ last.sent /= <<>>
            => /\ ~Blank(last.address) /\ TenDigitsInside(last.phone)
               /\ Len(last.sent) = 1
               /\ last.sent[1].url = "/place_order"
               /\ last.shown = <<>>

C3_Witness ==
    /\ last.op = "placeOrder"
    /\ Blank(last.address) /\ ~TenDigitsInside(last.phone)
    /\ last.shown = <<Note("Please enter delivery address", "error")>>
    /\ \E i \in 1..Len(notes) : notes[i].message = "Please enter delivery address"

\* ---------------------------------------------------------------------- C4
\* C4: in every request placeOrder sends, the address is a non-empty trimmed
\* string and the phone is the form input with its non-digit characters
\* stripped, a string of exactly 10 digits.
C4_PhoneSentAsDigits ==
    last.op = "placeOrder"
    => \A i \in 1..Len(last.sent) :
          LET b == last.sent[i].body
          IN  /\ b.address /= <<>>
              /\ Head(b.address) \notin Whitespace
              /\ b.address[Len(b.address)] \notin Whitespace
              /\ Len(b.phone) = 10
              /\ \A k \in 1..Len(b.phone) : b.phone[k] \in Digits
              /\ b.phone = StripNonDigits(last.phone)

\* ---------------------------------------------------------------------- C5
\* C5: updateQuantity with newQuantity < 1 never sends to /update_cart; it
\* delegates to removeFromCart, which prompts once, and a /remove_from_cart
\* request for that product is sent exactly when the user confirms.
C5_BelowOneDelegates ==
    (last.op = "updateQuantity" /\ last.quantity.kind = "int" /\ last.quantity.v < 1)
    => /\ SentTo("/update_cart") = {}
       /\ last.asked = 1
       /\ (\E i \in SentTo("/remove_from_cart") :
              last.sent[i].body.product_id = last.pid) <=> last.confirmed
       /\ \A i \in 1..Len(last.sent) :
              /\ last.sent[i].url = "/remove_from_cart"
              /\ last.sent[i].body.product_id = last.pid
       /\ Len(last.sent) <= 1

C5_Witness ==
    /\ last.op = "updateQuantity"
    /\ last.quantity = Num(0)
    /\ last.confirmed
    /\ last.asked = 1
    /\ \E i \in 1..Len(net) :
          /\ net[i].url = "/remove_from_cart"
          /\ net[i].body.product_id = last.pid

\* ---------------------------------------------------------------------- C6
\* C6: when the user declines the prompt, removeFromCart sends no request,
\* shows no notification, and leaves the cart line elements, the badge and
\* the page (no reload, no navigation) unchanged.
C6_DeclinedStep ==
    (last'.op = "removeFromCart" /\ ~last'.confirmed)
    => /\ last'.asked = 1
       /\ last'.sent = <<>> /\ net' = net
       /\ last'.shown = <<>> /\ notes' = notes
       /\ lineElems' = lineElems
       /\ badgeText' = badgeText /\ badgePresent' = badgePresent
       /\ page' = page /\ navTimers' = navTimers
       /\ container' = container /\ qtyInput' = qtyInput

C6_DeclinedChangesNothing == [][C6_DeclinedStep]_vars

C6_Witness ==
    /\ last.op = "removeFromCart"
    /\ ~last.confirmed
    /\ last.asked = 1
    /\ lineElems[last.pid] = 1
    /\ page = "live"

\* ---------------------------------------------------------------------- C7
\* C7: whenever the server answers a /remove_from_cart request with success
\* true, removeFromCart shows 'Item removed from cart' and no error, issues
\* a cart-count refresh and reloads the page, leaving no line element of
\* the product -- for every DOM at that moment, also one without a line
\* element of that product.
C7_RemoveSuccess ==
    (/\ last.op = "settle" /\ last.url = "/remove_from_cart"
     /\ last.outcome = "resolved" /\ last.data.success)
    => /\ last.shown = <<Note("Item removed from cart", "success")>>
       /\ SentTo("/api/cart/count") /= {}
       /\ page = "reloaded"
       /\ lineElems[last.pid] = 0

\* ---------------------------------------------------------------------- C8
\* C8: on an /add_to_cart answer with success true, addToCart shows a
\* success notification, issues a GET to /api/cart/count and resets the
\* product's quantity input to 1; on success false or a transport failure
\* it shows an error notification, issues no cart-count request and leaves
\* the quantity inputs unchanged.
C8_SettleStep ==
    (last'.op = "settle" /\ last'.url = "/add_to_cart")
    => IF last'.outcome = "resolved" /\ last'.data.success
       THEN /\ last'.shown = <<Note("Product added to cart!", "success")>>
            /\ Len(last'.sent) = 1
            /\ last'.sent[1].url = "/api/cart/count"
            /\ last'.sent[1].method = "GET"
            /\ \A p \in Products :
                  qtyInput'[p] =
                     IF p = last'.pid /\ qtyInput[p].present
                     THEN [present |-> TRUE, value |-> <<"1">>]
                     ELSE qtyInput[p]
       ELSE /\ Len(last'.shown) = 1
            /\ IsErrorNote(last'.shown[1])
            /\ last'.sent = <<>>
            /\ qtyInput' = qtyInput

C8_AddOutcome == [][C8_SettleStep]_vars

C8_Witness ==
    /\ last.op = "settle" /\ last.url = "/add_to_cart"
    /\ last.outcome = "resolved" /\ last.data.success
    /\ last.body.quantity = Num(3)
    /\ qtyInput[last.pid] = [present |-> TRUE, value |-> <<"1">>]
    /\ \E i \in 1..Len(net) : net[i].url = "/api/cart/count" /\ net[i] = last.sent[1]

\* ---------------------------------------------------------------------- C9
\* C9: for addToCart, updateQuantity, removeFromCart and placeOrder a
\* transport failure or unparsable answer gives exactly the user-visible
\* outcome of a success-false answer: the one generic error notification of
\* the operation, no reload, no navigation, no DOM change.
C9_Failed(e) ==
    /\ e.op = "settle" /\ e.url \in MutationUrls
    /\ (e.outcome = "rejected" \/ ~e.data.success)

C9_Frame ==
    /\ page' = page /\ navTimers' = navTimers
    /\ lineElems' = lineElems /\ qtyInput' = qtyInput
    /\ badgeText' = badgeText
    /\ last'.sent = <<>>

C9_OriginalStep ==
    C9_Failed(last')
    => /\ last'.shown = <<Note(GenericError(last'.url), "error")>>
       /\ C9_Frame

C9_FailureLikeSuccessFalse == [][C9_OriginalStep]_vars

\* C9 as amended: the same, except that a success-false answer of
\* /place_order carrying a non-empty message shows that message instead of
\* the generic text.
C9_ExpectedText(e) ==
    IF /\ e.url = "/place_order" /\ e.outcome = "resolved"
       /\ e.data.hasMessage /\ e.data.message /= ""
    THEN e.data.message
    ELSE GenericError(e.url)

C9_AmendedStep ==
    C9_Failed(last')
    => /\ last'.shown = <<Note(C9_ExpectedText(last'), "error")>>
       /\ C9_Frame

C9_FailureLikeSuccessFalseUnlessMessage == [][C9_AmendedStep]_vars

C9_Witness ==
    /\ last.op = "settle" /\ last.url = "/place_order"
    /\ last.outcome = "rejected"
    /\ last.shown = <<Note("Error placing order", "error")>>
    /\ last.logged = 1
    /\ page = "live"

\* --------------------------------------------------------------------- C10
\* C10: updateCartCount never shows a notification; a successful answer
\* writes the reported count into the badge, 0 when the count is 0 or
\* missing; on a transport error, an unparsable answer or a missing badge
\* element the badge text stays as it was.
C10_CountStep ==
    /\ last'.op = "DOMContentLoaded" => last'.shown = <<>> /\ notes' = notes
    /\ (last'.op = "settle" /\ last'.url = "/api/cart/count")
       => /\ last'.shown = <<>> /\ notes' = notes
          /\ badgeText' =
               IF last'.outcome = "resolved" /\ badgePresent
               THEN (IF last'.data.count.kind = "int" THEN last'.data.count.v ELSE 0)
               ELSE badgeText

C10_BadgeOnly == [][C10_CountStep]_vars

C10_Witness ==
    /\ last.op = "settle" /\ last.url = "/api/cart/count"
    /\ last.outcome = "resolved"
    /\ last.data.count = Num(1)
    /\ badgePresent /\ badgeText = 1


\* --------------------------------------------------------------------- C12
\* C12: for newQuantity >= 1, updateQuantity sends {product_id, quantity}
\* to /update_cart; the page is reloaded exactly when the answer has
\* success true; on success false or a transport failure an error
\* notification is shown, the page is not reloaded, and the cart line
\* elements and the badge stay as they were.
C12_UpdateStep ==
    /\ (/\ last'.op = "updateQuantity"
        /\ last'.quantity.kind = "int" /\ last'.quantity.v >= 1)
       => /\ Len(last'.sent) = 1
          /\ last'.sent[1].url = "/update_cart"
          /\ last'.sent[1].body.keys = {"product_id", "quantity"}
          /\ last'.sent[1].body.product_id = last'.pid
          /\ last'.sent[1].body.quantity = last'.quantity
          /\ last'.asked = 0
          /\ page' = page
    /\ (last'.op = "settle" /\ last'.url = "/update_cart")
       => IF last'.outcome = "resolved" /\ last'.data.success
          THEN page' = "reloaded" /\ last'.shown = <<>>
          ELSE /\ page' = page
               /\ last'.shown = <<Note("Error updating cart", "error")>>
               /\ lineElems' = lineElems
               /\ badgeText' = badgeText /\ badgePresent' = badgePresent

C12_ReloadIffSuccess == [][C12_UpdateStep]_vars

C12_Witness ==
    /\ last.op = "settle" /\ last.url = "/update_cart"
    /\ last.outcome = "resolved" /\ last.data.success
    /\ last.body.quantity = Num(2)
    /\ page = "reloaded"

\* --------------------------------------------------------------------- C19
\* C19: a settled request of addToCart, removeFromCart or placeOrder
\* (success true, success false or transport failure) shows exactly one
\* notification, so never a success and an error together; a settled
\* request of updateQuantity shows exactly one error notification on
\* failure and none on success.
C19_OneNotificationPerOutcome ==
    last.op = "settle"
    => /\ last.url \in {"/add_to_cart", "/remove_from_cart", "/place_order"}
            => Len(last.shown) = 1
       /\ last.url = "/update_cart"
            => IF last.outcome = "resolved" /\ last.data.success
               THEN last.shown = <<>>
               ELSE Len(last.shown) = 1 /\ IsErrorNote(last.shown[1])

C19_Witness ==
    /\ last.op = "settle" /\ last.url = "/remove_from_cart"
    /\ last.outcome = "resolved" /\ last.data.success
    /\ last.shown = <<Note("Item removed from cart", "success")>>
    /\ page = "reloaded"


\* --------------------------------------------------------------------- C11
\* C11: placeOrder navigates to the order list only after an answer with
\* success true, after the success notification has been shown and the
\* 2-second timer has run out; after a failure it never navigates, and it
\* shows the server's message when there is one and the generic
\* 'Error placing order' otherwise.
C11_OrderFailed(e) ==
    /\ e.op = "settle" /\ e.url = "/place_order"
    /\ ~(e.outcome = "resolved" /\ e.data.success)

C11_FailureText(e) ==
    IF e.outcome = "resolved" /\ e.data.hasMessage /\ e.data.message /= ""
    THEN e.data.message ELSE "Error placing order"

C11_Step ==
    /\ page' = "navigated" /\ page /= "navigated"
       => /\ last'.op = "redirect"
          /\ \E i \in 1..Len(notes) :
               /\ notes[i].message = "Order placed successfully!"
               /\ notes[i].type = "success"
               /\ notes[i].ttl = NotificationDelay - RedirectDelay
    /\ Len(navTimers') > Len(navTimers)
       => /\ last'.op = "settle" /\ last'.url = "/place_order"
          /\ last'.outcome = "resolved" /\ last'.data.success
          /\ last'.shown = <<Note("Order placed successfully!", "success")>>
          /\ page' = page
    /\ C11_OrderFailed(last')
       => /\ navTimers' = navTimers
          /\ page' = page
          /\ last'.shown = <<Note(C11_FailureText(last'), "error")>>

C11_NavigateAfterSuccessAndDelay == [][C11_Step]_vars

C11_Witness ==
    /\ page = "navigated" /\ last.op = "redirect"
    /\ \E i \in 1..Len(notes) : notes[i].message = "Order placed successfully!"

\* --------------------------------------------------------------------- C16
\* C16: every notification is eventually removed, when its 3000 ms timer
\* fires, unless the page is reloaded or left first; the notification
\* region is created only when the document has none, and at most one
\* region is ever created.
C16_RegionStep ==
    /\ containersCreated' /= containersCreated
       => /\ container = "absent" /\ container' = "visible"
          /\ containersCreated = 0 /\ containersCreated' = 1
    /\ Len(notes') < Len(notes)
       => /\ last'.op = "notificationTimeout"
          /\ Len(notes') = Len(notes) - 1
          /\ \E i \in 1..Len(notes) :
               notes[i].ttl = 0 /\ notes' = RemoveAt(notes, i)

C17_VisibleUntilOwnTimer ==
    (page = "live" /\ notes /= <<>>) => container = "visible"


\* --------------------------------------------------------------------- C13
\* C13: one invocation of addToCart, updateQuantity, removeFromCart or
\* placeOrder sends at most one request, to its own mutation endpoint
\* (updateQuantity below 1 to the endpoint of the removal it delegates to),
\* and nothing is sent to a mutation endpoint when a request settles,
\* least of all after success false or a transport failure; requests of
\* separate invocations are in flight side by side.
C13_Endpoint(e) ==
    CASE e.op = "addToCart"      -> {"/add_to_cart"}
      [] e.op = "updateQuantity" -> IF JsLess(e.quantity, 1)
                                    THEN {"/remove_from_cart"}
                                    ELSE {"/update_cart"}
      [] e.op = "removeFromCart" -> {"/remove_from_cart"}
      [] e.op = "placeOrder"     -> {"/place_order"}
      [] OTHER                   -> {}

C13_InFlight(n) ==
    Cardinality({i \in 1..Len(n) : n[i].url \in MutationUrls})

C13_Step ==
    /\ Len(last'.sent) <= 1 \/ last'.op \in {"settle", "DOMContentLoaded"}
    /\ \A i \in 1..Len(last'.sent) :
          last'.sent[i].url \in MutationUrls
          => /\ last'.op \in {"addToCart", "updateQuantity", "removeFromCart",
                              "placeOrder"}
             /\ last'.sent[i].url \in C13_Endpoint(last')
             /\ Len(last'.sent) = 1
    /\ (last'.op = "settle" /\ C9_Failed(last')) => last'.sent = <<>>
    /\ C13_InFlight(net') <= C13_InFlight(net) + 1
    /\ C13_InFlight(net') <= ops'

C13_OneRequestNoRetry == [][C13_Step]_vars

C13_Witness ==
    /\ ops = 2
    /\ C13_InFlight(net) = 2
    /\ \A i \in 1..Len(net) : net[i].url \in MutationUrls => net[i].stage = "request"


\* --------------------------------------------------------------------- C18
\* C18: after successful addToCart operations on one page, once every
\* request in flight (the adds and the cart-count fetches they trigger) has
\* completed, in whatever order, the badge shows the server's cart count.
C18_BadgeShowsServerCount ==
    (page = "live" /\ ops >= 1 /\ net = <<>>) => badgeText = serverCount


\* --------------------------------------------------------------------- C14
\* C14: for every phone string over digits and non-digit characters,
\* validatePhone returns true if and only if the string with all non-digit
\* characters removed consists of exactly 10 digits.
C14_IsDigit(c) == c \in Digits

C14_PhoneIffTenDigits ==
    last.op = "validatePhone"
    => (last.result <=> Len(SelectSeq(last.input, C14_IsDigit)) = 10)

C14_Witness ==
    /\ last.op = "validatePhone" /\ last.result
    /\ Len(last.input) = 11
    /\ \E i \in 1..Len(last.input) : last.input[i] \notin Digits

\* --------------------------------------------------------------------- C15
\* C15: validateEmail returns false for every string that contains no '@'
\* or has an '@' with no '.' anywhere after it, and returns true for
\* 'a@b.c'.
C15_NoAtOrNoDotAfter(s) ==
    \/ \A i \in 1..Len(s) : s[i] /= "@"
    \/ \E i \in 1..Len(s) :
         s[i] = "@" /\ \A j \in (i + 1)..Len(s) : s[j] /= "."

C15_EmailShape ==
    last.op = "validateEmail"
    => /\ C15_NoAtOrNoDotAfter(last.input) => ~last.result
       /\ last.input = <<"a", "@", "b", ".", "c">> => last.result

C15_Witness ==
    /\ last.op = "validateEmail"
    /\ last.input = <<"a", "@", "b", ".", "c">>
    /\ ~C15_NoAtOrNoDotAfter(last.input)
    /\ last.result

====
